---- MODULE Spec2Model ----
(***************************************************************************)
(* Model of get-btc.js: the four-source Bitcoin price fetch and its        *)
(* aggregation (fetch, fetchPrice, getBTCAverage).                          *)
(*                                                                         *)
(* JavaScript values are records [t, n, d, s, f]:                           *)
(*   t  the type tag ("undefined", "null", "boolean", "number", "nan",      *)
(*      "inf", "ninf", "string", "object"),                                 *)
(*   n/d  the value of a finite number as a reduced fraction (d > 0),       *)
(*        or n = 1/0 for true/false,                                        *)
(*   s  the characters of a string, f the fields of an object.              *)
(* Finite numbers are exact rationals: IEEE-754 rounding is not modelled.   *)
(***************************************************************************)
EXTENDS Integers, Sequences, FiniteSets, TLC

----------------------------------------------------------------------------
(* JavaScript values *)

NoFields == <<>>

Undefined == [t |-> "undefined", n |-> 0, d |-> 1, s |-> <<>>, f |-> NoFields]
Null      == [t |-> "null",      n |-> 0, d |-> 1, s |-> <<>>, f |-> NoFields]
NaN       == [t |-> "nan",       n |-> 0, d |-> 1, s |-> <<>>, f |-> NoFields]
Infinity  == [t |-> "inf",       n |-> 0, d |-> 1, s |-> <<>>, f |-> NoFields]
NegInfinity == [t |-> "ninf",    n |-> 0, d |-> 1, s |-> <<>>, f |-> NoFields]
True      == [t |-> "boolean",   n |-> 1, d |-> 1, s |-> <<>>, f |-> NoFields]
False     == [t |-> "boolean",   n |-> 0, d |-> 1, s |-> <<>>, f |-> NoFields]
Str(cs)   == [t |-> "string",    n |-> 0, d |-> 1, s |-> cs,   f |-> NoFields]
Obj(fs)   == [t |-> "object",    n |-> 0, d |-> 1, s |-> <<>>, f |-> fs]

Abs(x) == IF x < 0 THEN -x ELSE x

RECURSIVE Gcd(_, _)
Gcd(a, b) == IF b = 0 THEN a ELSE Gcd(b, a % b)

\* The finite number p/q (q # 0), reduced.
Frac(p, q) ==
    LET g  == Gcd(Abs(p), Abs(q))
        sg == IF q < 0 THEN -1 ELSE 1
    IN  [t |-> "number", n |-> sg * (p \div g), d |-> sg * (q \div g),
         s |-> <<>>, f |-> NoFields]

Num(k) == Frac(k, 1)

----------------------------------------------------------------------------
(* Strings: sequences of one-character strings *)

Digits == <<"0", "1", "2", "3", "4", "5", "6", "7", "8", "9">>

IsDigit(c) == \E k \in 1..10 : Digits[k] = c

DigitVal(c) == (CHOOSE k \in 1..10 : Digits[k] = c) - 1

InfinityStr == <<"I", "n", "f", "i", "n", "i", "t", "y">>
NaNStr == <<"N", "a", "N">>

IsPrefix(p, s) == Len(p) <= Len(s) /\ SubSeq(s, 1, Len(p)) = p

RECURSIVE TrimLeft(_)
TrimLeft(s) == IF s # <<>> /\ Head(s) = " " THEN TrimLeft(Tail(s)) ELSE s

RECURSIVE TrimRight(_)
TrimRight(s) ==
    IF s # <<>> /\ s[Len(s)] = " " THEN TrimRight(SubSeq(s, 1, Len(s) - 1)) ELSE s

\* The longest prefix of s made of digits.
RECURSIVE DigitPrefix(_)
DigitPrefix(s) ==
    IF s # <<>> /\ IsDigit(Head(s)) THEN <<Head(s)>> \o DigitPrefix(Tail(s)) ELSE <<>>

RECURSIVE DigitsToNat(_)
DigitsToNat(s) ==
    IF s = <<>> THEN 0
    ELSE 10 * DigitsToNat(SubSeq(s, 1, Len(s) - 1)) + DigitVal(s[Len(s)])

RECURSIVE NatToDigits(_)
NatToDigits(k) ==
    IF k < 10 THEN <<Digits[k + 1]>>
    ELSE NatToDigits(k \div 10) \o <<Digits[(k % 10) + 1]>>

\* Number::toString of an integer-valued number, "Infinity" and "NaN".
NumberToString(v) ==
    CASE v.t = "nan" -> NaNStr
      [] v.t = "inf" -> InfinityStr
      [] v.t = "ninf" -> <<"-">> \o InfinityStr
      [] OTHER -> IF v.n < 0 THEN <<"-">> \o NatToDigits(-v.n) ELSE NatToDigits(v.n)

\* ToString of the values a price sum can meet.
JSToString(v) ==
    CASE v.t = "string"    -> v.s
      [] v.t = "undefined" -> <<"u", "n", "d", "e", "f", "i", "n", "e", "d">>
      [] v.t = "null"      -> <<"n", "u", "l", "l">>
      [] v.t = "boolean"   -> IF v.n = 1 THEN <<"t", "r", "u", "e">>
                              ELSE <<"f", "a", "l", "s", "e">>
      [] v.t = "object"    -> <<"[", "o", "b", "j", "e", "c", "t", "]">>
      [] OTHER             -> NumberToString(v)

\* StringToNumber: whitespace is trimmed, the empty string is 0, the whole
\* of the rest must be a numeric literal.
StringToNumber(cs) ==
    LET b    == TrimRight(TrimLeft(cs))
        neg  == b # <<>> /\ Head(b) = "-"
        body == IF neg THEN Tail(b) ELSE b
    IN  IF b = <<>> THEN Num(0)
        ELSE IF body = InfinityStr THEN (IF neg THEN NegInfinity ELSE Infinity)
        ELSE IF body # <<>> /\ DigitPrefix(body) = body
             THEN Num(IF neg THEN -DigitsToNat(body) ELSE DigitsToNat(body))
        ELSE NaN

\* ToNumber.
ToNumber(v) ==
    CASE v.t = "undefined" -> NaN
      [] v.t = "null"      -> Num(0)
      [] v.t = "boolean"   -> Num(v.n)
      [] v.t = "string"    -> StringToNumber(v.s)
      [] v.t = "object"    -> NaN
      [] OTHER             -> v

\* ToBoolean.
ToBoolean(v) ==
    CASE v.t = "undefined" -> FALSE
      [] v.t = "null"      -> FALSE
      [] v.t = "boolean"   -> v.n = 1
      [] v.t = "number"    -> v.n # 0
      [] v.t = "nan"       -> FALSE
      [] v.t = "inf"       -> TRUE
      [] v.t = "ninf"      -> TRUE
      [] v.t = "string"    -> v.s # <<>>
      [] OTHER             -> TRUE

\* The global isNaN: ToNumber first.
isNaN(v) == ToNumber(v).t = "nan"

\* parseFloat: ToString, then the longest numeric prefix after leading
\* whitespace; no such prefix is NaN.
parseFloat(v) ==
    LET b    == TrimLeft(JSToString(v))
        neg  == b # <<>> /\ Head(b) = "-"
        body == IF neg THEN Tail(b) ELSE b
        ds   == DigitPrefix(body)
    IN  IF IsPrefix(InfinityStr, body) THEN (IF neg THEN NegInfinity ELSE Infinity)
        ELSE IF ds = <<>> THEN NaN
        ELSE Num(IF neg THEN -DigitsToNat(ds) ELSE DigitsToNat(ds))

----------------------------------------------------------------------------
(* Number arithmetic on "number" (exact fractions), "nan", "inf", "ninf" *)

Sign(v) ==
    CASE v.t = "inf"  -> 1
      [] v.t = "ninf" -> -1
      [] OTHER        -> IF v.n > 0 THEN 1 ELSE IF v.n < 0 THEN -1 ELSE 0

Signed(sg) == IF sg < 0 THEN NegInfinity ELSE Infinity

NumNeg(a) ==
    CASE a.t = "inf"    -> NegInfinity
      [] a.t = "ninf"   -> Infinity
      [] a.t = "number" -> Frac(-a.n, a.d)
      [] OTHER          -> NaN

NumAdd(a, b) ==
    IF a.t = "nan" \/ b.t = "nan" THEN NaN
    ELSE IF a.t = "number" /\ b.t = "number"
         THEN Frac(a.n * b.d + b.n * a.d, a.d * b.d)
    ELSE IF a.t = "number" THEN b
    ELSE IF b.t = "number" THEN a
    ELSE IF a.t = b.t THEN a
    ELSE NaN

NumSub(a, b) == NumAdd(a, NumNeg(b))

NumMul(a, b) ==
    IF a.t = "nan" \/ b.t = "nan" THEN NaN
    ELSE IF a.t = "number" /\ b.t = "number" THEN Frac(a.n * b.n, a.d * b.d)
    ELSE IF Sign(a) = 0 \/ Sign(b) = 0 THEN NaN
    ELSE Signed(Sign(a) * Sign(b))

\* Division; the sign of a zero divisor is taken as positive.
NumDiv(a, b) ==
    IF a.t = "nan" \/ b.t = "nan" THEN NaN
    ELSE IF a.t = "number" /\ b.t = "number"
         THEN IF b.n # 0 THEN Frac(a.n * b.d, a.d * b.n)
              ELSE IF a.n = 0 THEN NaN ELSE Signed(Sign(a))
    ELSE IF a.t = "number" THEN Num(0)
    ELSE IF b.t = "number" THEN Signed(Sign(a) * (IF Sign(b) < 0 THEN -1 ELSE 1))
    ELSE NaN

\* a < b on numbers; every comparison with NaN is false.
NumLt(a, b) ==
    /\ a.t # "nan" /\ b.t # "nan"
    /\ CASE a.t = "ninf" -> b.t # "ninf"
         [] a.t = "inf"  -> FALSE
         [] OTHER        -> \/ b.t = "inf"
                            \/ b.t = "number" /\ a.n * b.d < b.n * a.d

NumLe(a, b) == a.t # "nan" /\ b.t # "nan" /\ ~NumLt(b, a)

\* The binary + operator: concatenation as soon as one operand is a string.
JSAdd(a, b) ==
    IF a.t = "string" \/ b.t = "string" THEN Str(JSToString(a) \o JSToString(b))
    ELSE NumAdd(ToNumber(a), ToNumber(b))

\* The > operator against a number: ToNumber on the left operand.
JSGreater(a, b) == NumLt(ToNumber(b), ToNumber(a))

RECURSIVE MathMinFrom(_, _)
MathMinFrom(acc, vs) ==
    IF vs = <<>> THEN acc
    ELSE LET x == ToNumber(Head(vs))
         IN  MathMinFrom(IF acc.t = "nan" \/ x.t = "nan" THEN NaN
                         ELSE IF NumLt(x, acc) THEN x ELSE acc, Tail(vs))

\* Math.min(...vs): Infinity for no arguments, NaN as soon as one is NaN.
MathMin(vs) == MathMinFrom(Infinity, vs)

RECURSIVE MathMaxFrom(_, _)
MathMaxFrom(acc, vs) ==
    IF vs = <<>> THEN acc
    ELSE LET x == ToNumber(Head(vs))
         IN  MathMaxFrom(IF acc.t = "nan" \/ x.t = "nan" THEN NaN
                         ELSE IF NumLt(acc, x) THEN x ELSE acc, Tail(vs))

MathMax(vs) == MathMaxFrom(NegInfinity, vs)

\* Number.prototype.toFixed(2) of an exact value: round half up in magnitude.
toFixed2(v) ==
    IF v.t # "number" THEN Str(NumberToString(v))
    ELSE LET h  == (2 * 100 * Abs(v.n) + v.d) \div (2 * v.d)
             fr == h % 100
         IN  Str((IF v.n < 0 /\ h > 0 THEN <<"-">> ELSE <<>>)
                 \o NatToDigits(h \div 100) \o <<".">>
                 \o <<Digits[(fr \div 10) + 1], Digits[(fr % 10) + 1]>>)

----------------------------------------------------------------------------
(* Response bodies and JSON.parse                                          *)
(* A JSON text is a tree of syntax nodes: the literals null, true, false,  *)
(* a number literal (its characters), a string literal, an object of       *)
(* members; NotJSON is any text JSON.parse rejects.                        *)

NotJSON     == [t |-> "bad",     n |-> 0, d |-> 1, s |-> <<>>, f |-> NoFields]
NumLit(cs)  == [t |-> "numlit",  n |-> 0, d |-> 1, s |-> cs,   f |-> NoFields]
StrLit(cs)  == [t |-> "strlit",  n |-> 0, d |-> 1, s |-> cs,   f |-> NoFields]
ObjLit(ms)  == [t |-> "object",  n |-> 0, d |-> 1, s |-> <<>>, f |-> ms]

RECURSIVE Pow10(_)
Pow10(e) == IF e = 0 THEN 1 ELSE 10 * Pow10(e - 1)

\* The value of a number literal -?digits(e digits)?: a literal beyond the
\* range of a double (exponent above 308) is read as Infinity.
NumLitValue(cs) ==
    LET neg  == cs # <<>> /\ Head(cs) = "-"
        body == IF neg THEN Tail(cs) ELSE cs
        ms   == DigitPrefix(body)
        rest == SubSeq(body, Len(ms) + 1, Len(body))
        m    == DigitsToNat(ms)
        e    == IF rest = <<>> THEN 0 ELSE DigitsToNat(Tail(rest))
    IN  IF m = 0 THEN Num(0)
        ELSE IF e > 308 THEN (IF neg THEN NegInfinity ELSE Infinity)
        ELSE Num((IF neg THEN -1 ELSE 1) * m * Pow10(e))

\* JSON.parse of a well-formed text.
RECURSIVE JSONValue(_)
JSONValue(x) ==
    CASE x.t = "numlit" -> NumLitValue(x.s)
      [] x.t = "strlit" -> Str(x.s)
      [] x.t = "object" -> Obj([k \in DOMAIN x.f |-> JSONValue(x.f[k])])
      [] OTHER          -> x

RECURSIVE WellFormed(_)
WellFormed(x) ==
    /\ x.t # "bad"
    /\ x.t = "object" => \A k \in DOMAIN x.f : WellFormed(x.f[k])

\* Results of an evaluation that may throw.
Ok(v)       == [ok |-> TRUE,  v |-> v]
Thrown(msg) == [ok |-> FALSE, message |-> msg]

\* A body arrives as chunks; chunk k of m of a text is [text, part, of].
Chunk(x, k, m) == [text |-> x, part |-> k, of |-> m]

\* The chunks received so far make up one whole text.
IsWhole(data) ==
    /\ data # <<>>
    /\ \A k \in 1..Len(data) :
          data[k] = Chunk(data[1].text, k, Len(data))

\* JSON.parse(data): a SyntaxError on an empty, truncated or malformed text.
JSONparse(data) ==
    IF IsWhole(data) /\ WellFormed(data[1].text)
    THEN Ok(JSONValue(data[1].text))
    ELSE Thrown("Unexpected token")

----------------------------------------------------------------------------
(* The registry and its extractors *)

APIS == << [name |-> "CoinGecko",     url |-> "https://api.coingecko.com"],
           [name |-> "Binance",       url |-> "https://api.binance.com"],
           [name |-> "Coinbase",      url |-> "https://api.coinbase.com"],
           [name |-> "CryptoCompare", url |-> "https://min-api.cryptocompare.com"] >>

Sources == 1..Len(APIS)

\* v.k : a TypeError on undefined and null, undefined for a missing member.
Get(v, k) ==
    IF v.t \in {"undefined", "null"}
    THEN Thrown("Cannot read properties")
    ELSE Ok(IF v.t = "object" /\ k \in DOMAIN v.f THEN v.f[k] ELSE Undefined)

\* v?.k
OptGet(v, k) == IF v.t \in {"undefined", "null"} THEN Ok(Undefined) ELSE Get(v, k)

\* api.parser(data)
parser(api, data) ==
    CASE api.name = "CoinGecko" ->
            LET b == Get(data, "bitcoin")
            IN  IF b.ok THEN OptGet(b.v, "usd") ELSE b
      [] api.name = "Binance" ->
            LET p == Get(data, "price")
            IN  IF p.ok THEN Ok(parseFloat(p.v)) ELSE p
      [] api.name = "Coinbase" ->
            LET d == Get(data, "data")
            IN  IF d.ok
                THEN Ok(parseFloat(OptGet(OptGet(d.v, "rates").v, "USD").v))
                ELSE d
      [] OTHER -> Get(data, "USD")

----------------------------------------------------------------------------
(* Promises, fetch and fetchPrice *)

Pending      == [st |-> "pending"]
Resolved(v)  == [st |-> "resolved", value |-> v]
Rejected(e)  == [st |-> "rejected", reason |-> e]

\* new Error(message); `text` holds the body an HTTP message quotes.
Error(msg, code, text) == [message |-> [m |-> msg, code |-> code, text |-> text]]

\* A timeout callback that leaves the rejection to the 'error' event its
\* req.destroy() raises.
TimeoutAsHangUp == Error("socket hang up", 0, <<>>)

TimeoutError   == Error("Request timeout", 0, <<>>)
TransportError == Error("socket hang up", 0, <<>>)

\* The res 'end' handler: how it settles the fetch promise.
OnEnd(statusCode, data) ==
    IF statusCode >= 200 /\ statusCode < 300
    THEN LET r == JSONparse(data)
         IN  IF r.ok THEN Resolved(r.v)
             ELSE Rejected(Error("Failed to parse JSON", 0, <<r.message>>))
    ELSE Rejected(Error("HTTP", statusCode, data))

\* A promise that every call of resolve/reject settles anew.
SettleAgain(promise, settlement) == settlement

\* resolve/reject on a promise: only the first call settles it.
Settle(promise, settlement) ==
    IF promise.st = "pending" THEN settlement ELSE promise

\* The test fetchPrice applies to the extracted price.
IsValidPrice(price) ==
    ToBoolean(price) /\ ~isNaN(price) /\ JSGreater(price, Num(0))

Success(api, price) == [name |-> api.name, price |-> price, success |-> TRUE]
Failure(api, msg)   == [name |-> api.name, error |-> msg, success |-> FALSE]

\* A fetchPrice whose extractor call sits outside the try block.
OnParserThrowEscapes(api, msg) == Rejected(Error(msg, 0, <<>>))

\* What a throw of the extractor leads to: the catch block.
OnParserThrow(api, msg) ==
    Resolved(Failure(api, [m |-> msg, code |-> 0, text |-> <<>>]))

\* fetchPrice(api) once fetch(api.url) has settled as `fetched`: how the
\* promise it returned settles.
fetchPrice(api, fetched) ==
    IF fetched.st = "rejected"
    THEN Resolved(Failure(api, fetched.reason.message))
    ELSE LET r == parser(api, fetched.value)
         IN  IF ~r.ok THEN OnParserThrow(api, r.message)
             ELSE IF IsValidPrice(r.v) THEN Resolved(Success(api, r.v))
             ELSE Resolved(Failure(api, [m |-> "Invalid price data",
                                         code |-> 0, text |-> <<>>]))

----------------------------------------------------------------------------
(* getBTCAverage after the join *)

RECURSIVE SumFrom(_, _)
SumFrom(acc, ps) ==
    IF ps = <<>> THEN acc ELSE SumFrom(JSAdd(acc, Head(ps)), Tail(ps))

\* prices.reduce((sum, price) => sum + price, 0) / prices.length
Average(prices) == NumDiv(ToNumber(SumFrom(Num(0), prices)), Num(Len(prices)))

\* results.filter(r => r.success)
Successful(results) == SelectSeq(results, LAMBDA r : r.success)

\* The object getBTCAverage returns.
Report(results) ==
    LET successful == Successful(results)
        prices  == [k \in 1..Len(successful) |-> successful[k].price]
        average == Average(prices)
        min     == MathMin(prices)
        max     == MathMax(prices)
        spread  == NumSub(max, min)
    IN  [average |-> average, min |-> min, max |-> max, spread |-> spread,
         spreadPercent |-> toFixed2(NumMul(NumDiv(spread, average), Num(100))),
         sources |-> Len(successful),
         totalSources |-> Len(APIS),
         prices |-> [k \in 1..Len(successful) |->
                        [name |-> successful[k].name, price |-> successful[k].price]]]

----------------------------------------------------------------------------
(* Promise.all *)

Empty == [empty |-> TRUE]

\* A join that collects the values in the order they arrive.
StoreInArrivalOrder(rs, i, v) ==
    [rs EXCEPT ![CHOOSE k \in DOMAIN rs :
                    rs[k] = Empty /\ \A j \in DOMAIN rs : j < k => rs[j] # Empty] = v]

\* Promise.all stores each value at the index of its promise.
StoreResult(rs, i, v) == [rs EXCEPT ![i] = v]

\* A join that resolves with the values at hand as soon as one promise is
\* resolved.
PromiseFirst(ps, rs) ==
    IF \E i \in DOMAIN ps : ps[i].st = "rejected"
    THEN Rejected(ps[CHOOSE i \in DOMAIN ps : ps[i].st = "rejected"].reason)
    ELSE IF \E i \in DOMAIN ps : ps[i].st = "resolved"
         THEN Resolved(SelectSeq(rs, LAMBDA r : r # Empty))
    ELSE Pending

\* Promise.all(ps): rejected as soon as one promise is, resolved with the
\* array of values once every promise is resolved.
PromiseAll(ps, rs) ==
    IF \E i \in DOMAIN ps : ps[i].st = "rejected"
    THEN Rejected(ps[CHOOSE i \in DOMAIN ps : ps[i].st = "rejected"].reason)
    ELSE IF \A i \in DOMAIN ps : ps[i].st = "resolved" THEN Resolved(rs)
    ELSE Pending

\* A getBTCAverage without the check for zero successes.
AfterAwaitUnchecked(joined) ==
    IF joined.st = "pending" THEN [avg |-> Pending, exit |-> <<>>]
    ELSE IF joined.st = "rejected"
         THEN [avg |-> Rejected(joined.reason), exit |-> <<>>]
    ELSE [avg |-> Resolved(Report(joined.value)), exit |-> <<>>]

\* getBTCAverage from its await on: how its promise settles and whether the
\* process exits (exit is <<>> while the process runs, <<code>> after
\* process.exit(code)).
AfterAwait(joined) ==
    IF joined.st = "pending" THEN [avg |-> Pending, exit |-> <<>>]
    ELSE IF joined.st = "rejected"
         THEN [avg |-> Rejected(joined.reason), exit |-> <<>>]
    ELSE IF Len(Successful(joined.value)) = 0
         THEN [avg |-> Pending, exit |-> <<1>>]
    ELSE [avg |-> Resolved(Report(joined.value)), exit |-> <<>>]

----------------------------------------------------------------------------
(* The callers: getBitcoin, the named-source wrappers, the main module *)

\* What run(url) yields for get-btc.js: its exports.
Module == [getBTCAverage |-> "function", fetchPrice |-> "function"]

\* getBitcoin(): `called` is the promise of module.getBTCAverage().
getBitcoin(module, called) ==
    IF "getBTCAverage" \in DOMAIN module /\ module.getBTCAverage = "function"
    THEN called
    ELSE Rejected(Error("getBTCAverage is not available", 0, <<>>))

\* The named-source wrappers: the package, the name it looks up and the
\* message of the error it throws.
Wrappers ==
    << [pkg |-> "cb-btc-value", name |-> "Coinbase",
        notFound |-> "Coinbase price not found"],
       [pkg |-> "coingecko-bitcoin", name |-> "CoinGecko",
        notFound |-> "CoinGecko price not found"],
       [pkg |-> "coingecko-bitcoin", name |-> "CryptoCompare",
        notFound |-> "CryptoCompare price not found"] >>

\* A lookup that takes the first entry whatever its name.
findFirst(prices, name) ==
    IF prices = <<>> THEN Undefined ELSE prices[1]

\* prices.find(p => p.name === name): the first entry of that name,
\* undefined when there is none.
find(prices, name) ==
    IF \E k \in 1..Len(prices) : prices[k].name = name
    THEN prices[CHOOSE k \in 1..Len(prices) :
                   /\ prices[k].name = name
                   /\ \A j \in 1..(k - 1) : prices[j].name # name]
    ELSE Undefined

\* A wrapper that falls back on the average when its source is missing.
valueOrAverage(w, got) ==
    IF got.st # "resolved" THEN got
    ELSE LET target == find(got.value.prices, w.name)
         IN  IF target = Undefined
             THEN Resolved(Str(JSToString(got.value.average)))
             ELSE Resolved(Str(JSToString(target.price)))

\* value() of wrapper w once `got`, the promise of getBitcoin(), is settled
\* (pending while it is not): how the promise of value() settles.
value(w, got) ==
    IF got.st # "resolved" THEN got
    ELSE LET target == find(got.value.prices, w.name)
         IN  IF target = Undefined
             THEN Rejected(Error(w.notFound, 0, <<>>))
             ELSE Resolved(Str(JSToString(target.price)))

\* A main module with the two exit codes swapped.
mainSwapped(called) ==
    IF called.st = "resolved" THEN <<1>>
    ELSE IF called.st = "rejected" THEN <<0>>
    ELSE <<>>

\* The main module: getBTCAverage().then(exit 0).catch(exit 1); <<>> while
\* the promise is pending.
main(called) ==
    IF called.st = "resolved" THEN <<0>>
    ELSE IF called.st = "rejected" THEN <<1>>
    ELSE <<>>

----------------------------------------------------------------------------
(* What the sources send *)

\* The body of source `api` with `leaf` where its extractor reads the price.
BodyOf(api, leaf) ==
    CASE api.name = "CoinGecko" -> ObjLit([bitcoin |-> ObjLit([usd |-> leaf])])
      [] api.name = "Binance"   -> ObjLit([price |-> leaf])
      [] api.name = "Coinbase"  ->
            ObjLit([data |-> ObjLit([rates |-> ObjLit([USD |-> leaf])])])
      [] OTHER                  -> ObjLit([USD |-> leaf])

StatusCodes == {200, 404}

\* The price member each source sends: a number from CoinGecko and
\* CryptoCompare, a numeric string from Binance and Coinbase. Prices are in
\* thousands of dollars, which keeps every sum within TLC's integers.
Quote(i) ==
    CASE i = 1 -> NumLit(<<"6", "0">>)
      [] i = 2 -> StrLit(<<"6", "2">>)
      [] i = 3 -> StrLit(<<"5", "9">>)
      [] OTHER -> NumLit(<<"6", "1">>)

\* The texts source i may send in the event model after a status line: its
\* quote or the JSON text null with a 2xx status, its quote with any other
\* status (a body that would parse and validate, were it looked at).
WireTexts(i, code) ==
    IF code >= 200 /\ code < 300
    THEN {BodyOf(APIS[i], Quote(i)), Null}
    ELSE {BodyOf(APIS[i], Quote(i))}

\* A body arrives in at most MaxChunks chunks.
MaxChunks == 1

\* The number of chunks a body may arrive in: up to MaxChunks for the body
\* of a 2xx response, which is parsed; one for an error body, which is
\* quoted as it is.
ChunkCounts(code) ==
    IF code >= 200 /\ code < 300 THEN 1..MaxChunks ELSE {1}

----------------------------------------------------------------------------
(* State *)

VARIABLES
    req,      \* per source: the request and, while it is live, its response:
              \*   [st |-> "unsent"], [st |-> "open"] (sent, no response yet),
              \*   [st |-> "response", statusCode, data] (headers in, the
              \*     listeners attached, data the chunks accumulated so far),
              \*   [st |-> "ended"], [st |-> "aborted"], [st |-> "destroyed"],
              \*   [st |-> "broken"] ('error' emitted, the response not
              \*     ended), [st |-> "errored"]
    fetchP,   \* per source: the promise of fetch(api.url)
    priceP,   \* per source: the promise of fetchPrice(api)
    results,  \* the value array of Promise.all
    avg,      \* the promise of getBTCAverage()
    exit      \* <<>> while the process runs, <<code>> after process.exit

vars == <<req, fetchP, priceP, results, avg, exit>>

NotCalled == [st |-> "none"]

Req(st) == [st |-> st]
Res(code, data) == [st |-> "response", statusCode |-> code, data |-> data]

Init ==
    /\ req = [i \in Sources |-> Req("unsent")]
    /\ fetchP = [i \in Sources |-> NotCalled]
    /\ priceP = [i \in Sources |-> NotCalled]
    /\ results = [i \in Sources |-> Empty]
    /\ avg = NotCalled
    /\ exit = <<>>

Alive == exit = <<>>

\* The sources whose request APIS.map(api => fetchPrice(api)) has issued by
\* the time getBTCAverage first awaits.
Launched == Sources

\* getBTCAverage(): every fetchPrice runs up to its await, so every request
\* is issued, then getBTCAverage awaits the join.
Invoke ==
    /\ Alive
    /\ avg = NotCalled
    /\ req' = [i \in Sources |-> IF i \in Launched THEN Req("open") ELSE req[i]]
    /\ fetchP' = [i \in Sources |-> IF i \in Launched THEN Pending ELSE fetchP[i]]
    /\ priceP' = [i \in Sources |-> IF i \in Launched THEN Pending ELSE priceP[i]]
    /\ avg' = Pending
    /\ UNCHANGED <<results, exit>>

\* resolve/reject of source i's fetch promise with `settlement`, and the
\* promise reactions that run before the next event: fetchPrice's
\* continuation, Promise.all's bookkeeping and, once the join settles,
\* the rest of getBTCAverage.
SettleFetch(i, settlement) ==
    LET first == fetchP[i].st = "pending"
        f2    == Settle(fetchP[i], settlement)
    IN  /\ fetchP' = [fetchP EXCEPT ![i] = f2]
        /\ IF first
           THEN \E p2 \in {fetchPrice(APIS[i], f2)} :
                  LET ps == [priceP EXCEPT ![i] = p2]
                      rs == IF p2.st = "resolved"
                            THEN StoreResult(results, i, p2.value) ELSE results
                  IN  /\ priceP' = ps
                      /\ results' = rs
                      /\ IF avg.st = "pending"
                         THEN \E after \in {AfterAwait(PromiseAll(ps, rs))} :
                                 avg' = after.avg /\ exit' = after.exit
                         ELSE UNCHANGED <<avg, exit>>
           ELSE UNCHANGED <<priceP, results, avg, exit>>

\* The response callback of protocol.get: headers are in, data starts empty.
Response(i, code) ==
    /\ Alive
    /\ req[i].st = "open"
    /\ req' = [req EXCEPT ![i] = Res(code, <<>>)]
    /\ UNCHANGED <<fetchP, priceP, results, avg, exit>>

\* The chunks that can come next on source i's response.
NextChunks(i) ==
    IF req[i].st # "response" THEN {}
    ELSE IF req[i].data = <<>>
    THEN {Chunk(x, 1, m) : x \in WireTexts(i, req[i].statusCode),
                           m \in ChunkCounts(req[i].statusCode)}
    ELSE LET l == req[i].data[Len(req[i].data)]
         IN  IF l.part < l.of THEN {Chunk(l.text, l.part + 1, l.of)} ELSE {}

\* A fetch whose `data` is one buffer shared by all calls.
OnDataShared(rq, i, chunk) ==
    [j \in DOMAIN rq |->
        IF rq[j].st = "response"
        THEN Res(rq[j].statusCode, rq[j].data \o <<chunk>>) ELSE rq[j]]

\* data += chunk, on the `data` of this call of fetch.
OnData(rq, i, chunk) ==
    [rq EXCEPT ![i] = Res(rq[i].statusCode, rq[i].data \o <<chunk>>)]

\* res 'data'
Data(i, chunk) ==
    /\ Alive
    /\ req[i].st = "response"
    /\ chunk \in NextChunks(i)
    /\ req' = OnData(req, i, chunk)
    /\ UNCHANGED <<fetchP, priceP, results, avg, exit>>

\* res 'end': the body is complete (possibly empty) or, on runtimes that
\* still emit 'end' after a premature close, cut short.
End(i) ==
    /\ Alive
    /\ req[i].st = "response"
    /\ req' = [req EXCEPT ![i] = Req("ended")]
    /\ SettleFetch(i, OnEnd(req[i].statusCode, req[i].data))

\* The connection closes before the body is complete, on runtimes that
\* destroy the response then: it emits 'aborted' and 'close', for which
\* fetch registers no listener, never 'end', and the request emits no
\* 'error' once a response exists.
Abort(i) ==
    /\ Alive
    /\ req[i].st = "response"
    /\ ~IsWhole(req[i].data)
    /\ req' = [req EXCEPT ![i] = Req("aborted")]
    /\ UNCHANGED <<fetchP, priceP, results, avg, exit>>

\* req 'error': a transport error, or the 'socket hang up' that follows
\* req.destroy(). An error while the response is being read leaves a
\* response that, on runtimes that still emit 'end' after a premature
\* close, has its 'end' to come.
ReqError(i) ==
    /\ Alive
    /\ req[i].st \in {"open", "response", "destroyed"}
    /\ req' = [req EXCEPT ![i] = IF req[i].st = "response" THEN Req("broken")
                                 ELSE Req("errored")]
    /\ SettleFetch(i, Rejected(TransportError))

\* res 'end' on a response whose request has emitted 'error': the handler
\* runs with whatever status and data the response had.
EndAfterError(i) ==
    /\ Alive
    /\ req[i].st = "broken"
    /\ req' = [req EXCEPT ![i] = Req("ended")]
    /\ \E code \in StatusCodes : \E x \in WireTexts(i, code) :
          \E data \in {<<>>, <<Chunk(x, 1, 1)>>} :
             SettleFetch(i, OnEnd(code, data))

\* A timeout callback that gives up every request still in flight.
destroyAll(rq, i) ==
    [j \in DOMAIN rq |->
        IF rq[j].st \in {"open", "response"} THEN Req("destroyed") ELSE rq[j]]

\* req.destroy() in the timeout callback of request i: a no-op on a request
\* that has ended.
destroy(rq, i) ==
    [rq EXCEPT ![i] = IF rq[i].st = "ended" THEN rq[i] ELSE Req("destroyed")]

\* The callback of req.setTimeout: req.destroy(), then reject.
Timeout(i) ==
    /\ Alive
    /\ req[i].st \in {"open", "response", "ended"}
    /\ req' = destroy(req, i)
    /\ SettleFetch(i, Rejected(TimeoutError))

Next ==
    \/ Invoke
    \/ \E i \in Sources, code \in StatusCodes : Response(i, code)
    \/ \E i \in Sources : \E chunk \in NextChunks(i) : Data(i, chunk)
    \/ \E i \in Sources : End(i)
    \/ \E i \in Sources : Abort(i)
    \/ \E i \in Sources : ReqError(i)
    \/ \E i \in Sources : EndAfterError(i)
    \/ \E i \in Sources : Timeout(i)

Spec == Init /\ [][Next]_vars

----------------------------------------------------------------------------
(* The price model: every source has either answered 200 with one of the   *)
(* bodies below, whole and waiting for 'end', or timed out; the responses  *)
(* then end in any order.                                                  *)

\* What a body may hold where the extractor reads: the source's quote, 0,
\* a negative number, a number literal beyond the range of a double, and a
\* numeric string.
PriceLeaves(i) ==
    { Quote(i),
      NumLit(<<"0">>),
      NumLit(<<"-", "5">>),
      NumLit(<<"1", "e", "9", "9", "9">>),
      StrLit(<<"6", "0">>) }

\* The bodies of the price model: one per leaf, and {} (the member missing).
PriceTexts(i) == {BodyOf(APIS[i], l) : l \in PriceLeaves(i)} \cup {ObjLit(NoFields)}

StartsOf(i) ==
    {Res(200, <<Chunk(x, 1, 1)>>) : x \in PriceTexts(i)} \cup {Req("destroyed")}

InitPrices ==
    /\ req \in [Sources -> UNION {StartsOf(i) : i \in Sources}]
    /\ \A i \in Sources : req[i] \in StartsOf(i)
    /\ \E i \in Sources : req[i].st = "response"
    /\ fetchP = [i \in Sources |-> IF req[i].st = "response" THEN Pending
                                   ELSE Rejected(TimeoutError)]
    /\ priceP = [i \in Sources |-> IF req[i].st = "response" THEN Pending
                                   ELSE fetchPrice(APIS[i], Rejected(TimeoutError))]
    /\ results = [i \in Sources |-> IF req[i].st = "response" THEN Empty
                                    ELSE priceP[i].value]
    /\ avg = Pending
    /\ exit = <<>>

NextPrices == \E i \in Sources : End(i)

SpecPrices == InitPrices /\ [][NextPrices]_vars

----------------------------------------------------------------------------
(* The response model: one source has a complete response, of any of the   *)
(* status codes and bodies below, waiting for 'end'; the three others have *)
(* timed out.                                                              *)

ResponseCodes == {199, 200, 204, 299, 300, 404, 500}

\* The texts of the response model: the source's quote, a zero price, {},
\* the JSON text null and a text that is not JSON.
ResponseTexts(i) ==
    { BodyOf(APIS[i], Quote(i)),
      BodyOf(APIS[i], NumLit(<<"0">>)),
      ObjLit(NoFields),
      Null,
      NotJSON }

\* What `data` may hold at 'end': nothing, one of the texts, or the first
\* half of the quote.
ResponseData(i) ==
    {<<>>} \cup {<<Chunk(x, 1, 1)>> : x \in ResponseTexts(i)}
           \cup {<<Chunk(BodyOf(APIS[i], Quote(i)), 1, 2)>>}

ResponsesOf(i) == {Res(code, data) : code \in ResponseCodes, data \in ResponseData(i)}

InitResponses ==
    /\ \E k \in Sources : \E r \in ResponsesOf(k) :
          req = [i \in Sources |-> IF i = k THEN r ELSE Req("destroyed")]
    /\ fetchP = [i \in Sources |-> IF req[i].st = "response" THEN Pending
                                   ELSE Rejected(TimeoutError)]
    /\ priceP = [i \in Sources |-> IF req[i].st = "response" THEN Pending
                                   ELSE fetchPrice(APIS[i], Rejected(TimeoutError))]
    /\ results = [i \in Sources |-> IF req[i].st = "response" THEN Empty
                                    ELSE priceP[i].value]
    /\ avg = Pending
    /\ exit = <<>>

NextResponses == \E i \in Sources : End(i)

SpecResponses == InitResponses /\ [][NextResponses]_vars

----------------------------------------------------------------------------
(* Properties *)

Settled(p) == p.st \in {"resolved", "rejected"}

Succeeded(i) == priceP[i].st = "resolved" /\ priceP[i].value.success
Failed(i)    == priceP[i].st = "resolved" /\ ~priceP[i].value.success

Reported == avg.st = "resolved"

\* The request of source i can still emit an event that settles its fetch
\* promise: 'end', 'error' and the timeout need a request that is open or
\* has a live response.
CanStillSettle(i) == req[i].st \in {"open", "response"}

\* C1: every invocation of getBTCAverage ends, and no fetch promise stays
\* pending forever. Every step of the model makes progress, so under fair
\* scheduling a fetch promise stays pending forever exactly when it is
\* pending in a state where its request can emit no settling event any
\* more: no such state may be reachable.
C1_EveryInvocationEnds ==
    \A i \in Sources : fetchP[i].st = "pending" => CanStillSettle(i)

\* C2: when every source has failed, getBTCAverage's promise is rejected (the
\* caller observes an error) and no report is produced.
C2_AllFailedRejects ==
    (\A i \in Sources : Failed(i)) => (avg.st = "rejected" /\ Alive)

\* C3: fetchPrice yields Success only for a price that is a finite, strictly
\* positive number.
C3_SuccessIsPositiveFiniteNumber ==
    \A i \in Sources :
        Succeeded(i) =>
            /\ priceP[i].value.price.t = "number"
            /\ priceP[i].value.price.n > 0

\* C4: the promise of fetchPrice is never rejected, and once the fetch of a
\* source has settled, in whatever way, it is resolved with one outcome that
\* carries the source's name and either {price, success: true} or
\* {error, success: false}.
C4_FetchPriceNeverRejects ==
    \A i \in Sources :
        /\ priceP[i].st # "rejected"
        /\ avg.st # "rejected"
        /\ Settled(fetchP[i]) => priceP[i].st = "resolved"
        /\ priceP[i].st = "resolved" =>
              /\ results[i] = priceP[i].value
              /\ priceP[i].value.name = APIS[i].name
              /\ \/ /\ DOMAIN priceP[i].value = {"name", "price", "success"}
                    /\ priceP[i].value.success
                 \/ /\ DOMAIN priceP[i].value = {"name", "error", "success"}
                    /\ ~priceP[i].value.success

\* C4 witness: an invocation in which an extractor threw on the JSON body
\* null, a fetch timed out, one met a transport error and one an HTTP error.
C4_Witness ==
    /\ \E i \in Sources : Failed(i) /\ priceP[i].value.error.m = "Cannot read properties"
    /\ \E i \in Sources : Failed(i) /\ priceP[i].value.error.m = "Request timeout"
    /\ \E i \in Sources : Failed(i) /\ priceP[i].value.error.m = "socket hang up"
    /\ \E i \in Sources : Failed(i) /\ priceP[i].value.error.m = "HTTP"

\* C5: every request is issued before any source completes, getBTCAverage
\* goes on past the join only when all fetches have an outcome, and a
\* request is given up only by its own timeout.
C5_JoinWaitsForAll ==
    /\ (\E i \in Sources : req[i].st \notin {"unsent", "open"})
          => \A j \in Sources : req[j].st # "unsent"
    /\ (Settled(avg) \/ ~Alive) => \A i \in Sources : Settled(priceP[i])
    /\ \A j \in Sources :
          req[j].st = "destroyed" => fetchP[j] = Rejected(TimeoutError)

\* C5 witness: one source has succeeded and another failed while a third is
\* still in flight, and getBTCAverage is still waiting.
C5_Witness ==
    /\ avg.st = "pending" /\ Alive
    /\ \E i, j, k \in Sources :
          /\ Succeeded(i) /\ Failed(j)
          /\ priceP[k].st = "pending" /\ req[k].st \in {"open", "response"}

RegistryNames == [i \in Sources |-> APIS[i].name]

\* C6: the names of report.prices are the registry's names, in registry
\* order, of the sources that succeeded.
C6_PricesInRegistryOrder ==
    Reported =>
        LET prices == avg.value.prices
        IN  /\ \A i \in Sources : Settled(priceP[i])
            /\ [k \in 1..Len(prices) |-> prices[k].name]
                  = SelectSeq(RegistryNames,
                              LAMBDA n : \E i \in Sources :
                                            APIS[i].name = n /\ Succeeded(i))
            /\ \A k \in 1..Len(prices) : \E i \in Sources :
                  /\ APIS[i].name = prices[k].name
                  /\ prices[k].price = priceP[i].value.price

\* C6 witness: a report over Binance and CryptoCompare, CoinGecko and
\* Coinbase having failed.
C6_Witness ==
    /\ Reported
    /\ Failed(1) /\ Succeeded(2) /\ Failed(3) /\ Succeeded(4)

\* C7: a report has sources = length(prices), 1 <= sources <= totalSources
\* and totalSources = the size of the registry, 4.
C7_ReportCounts ==
    Reported =>
        /\ avg.value.sources = Len(avg.value.prices)
        /\ avg.value.sources = Cardinality({i \in Sources : Succeeded(i)})
        /\ 1 <= avg.value.sources
        /\ avg.value.sources <= avg.value.totalSources
        /\ avg.value.totalSources = Len(APIS)
        /\ avg.value.totalSources = 4

\* C7 witness: a report over a single source out of four.
C7_Witness ==
    /\ Reported
    /\ avg.value.sources = 1
    /\ Cardinality({i \in Sources : Failed(i)}) = 3

Winners == {i \in Sources : Succeeded(i)}

PriceOf(i) == ToNumber(priceP[i].value.price)

\* C8: a report has min <= average <= max.
C8_AverageBetweenMinAndMax ==
    Reported =>
        /\ NumLe(avg.value.min, avg.value.average)
        /\ NumLe(avg.value.average, avg.value.max)

\* C9: a report over exactly one source has min = max = average = that
\* source's price (as a number) and spread = 0.
C9_SingleSourceReport ==
    (Reported /\ avg.value.sources = 1) =>
        LET p == ToNumber(avg.value.prices[1].price)
        IN  /\ avg.value.min = p
            /\ avg.value.max = p
            /\ avg.value.average = p
            /\ avg.value.spread = Num(0)

RECURSIVE SumOver(_)
SumOver(S) ==
    IF S = {} THEN Num(0)
    ELSE LET i == CHOOSE j \in S : TRUE
         IN  NumAdd(PriceOf(i), SumOver(S \ {i}))

\* C10: the average of a report is the sum of the prices of the sources that
\* succeeded divided by their number; min, max and spread range over those
\* prices alone; with successes 60, 62 and 59 (thousand) and one timeout the
\* report has sources = 3, min = 59, max = 62, spread = 3, average = 181 / 3.
C10_AverageOverSuccesses ==
    Reported =>
        /\ avg.value.sources = Cardinality(Winners)
        /\ avg.value.average = NumDiv(SumOver(Winners), Num(Cardinality(Winners)))
        /\ \E i \in Winners : avg.value.min = PriceOf(i)
        /\ \A i \in Winners : NumLe(avg.value.min, PriceOf(i))
        /\ \E i \in Winners : avg.value.max = PriceOf(i)
        /\ \A i \in Winners : NumLe(PriceOf(i), avg.value.max)
        /\ avg.value.spread = NumSub(avg.value.max, avg.value.min)
        /\ ( /\ Winners = {1, 2, 3}
             /\ PriceOf(1) = Num(60) /\ PriceOf(2) = Num(62) /\ PriceOf(3) = Num(59)
             /\ priceP[1].value.price.t = "number" )
           => /\ avg.value.sources = 3
              /\ avg.value.min = Num(59)
              /\ avg.value.max = Num(62)
              /\ avg.value.spread = Num(3)
              /\ avg.value.average = Frac(181, 3)

----------------------------------------------------------------------------
(* The callers' view of a round *)

\* The promise of value() of wrapper k, the round being the one it started.
ValueOf(k) == value(Wrappers[k], getBitcoin(Module, avg))

\* The source wrapper k looks up.
SourceOf(k) == CHOOSE i \in Sources : APIS[i].name = Wrappers[k].name

\* The exit code of the process when get-btc.js is the main module: that of
\* process.exit inside getBTCAverage, else that of the main module's
\* reaction to the promise; <<>> while the process runs.
ExitCode == IF exit # <<>> THEN exit ELSE main(avg)

AllSettled == \A i \in Sources : Settled(priceP[i])

AllFailed == \A i \in Sources : Failed(i)

\* C11: once the round is complete, a wrapper whose source failed while
\* another source succeeded fails with '<name> price not found', in a
\* process that is still running; when all sources failed its promise is
\* not rejected with that error (the process has exited instead), so the two
\* conditions differ for the caller.
C11_NamedSourceNotFound ==
    \A k \in DOMAIN Wrappers :
        /\ (AllSettled /\ Failed(SourceOf(k)) /\ \E j \in Sources : Succeeded(j))
              => /\ Alive
                 /\ ValueOf(k) = Rejected(Error(Wrappers[k].notFound, 0, <<>>))
                 /\ Wrappers[k].notFound \in
                       {"Coinbase price not found", "CoinGecko price not found",
                        "CryptoCompare price not found"}
        /\ AllFailed => (ValueOf(k).st # "rejected" /\ ~Alive)

\* C11 witness: Coinbase failed with a timeout, the three others succeeded,
\* and the Coinbase wrapper is rejected while the CoinGecko one is not.
C11_Witness ==
    /\ Failed(3) /\ priceP[3].value.error.m = "Request timeout"
    /\ Succeeded(1) /\ Succeeded(2) /\ Succeeded(4)
    /\ ValueOf(1).st = "rejected"
    /\ ValueOf(1).reason.message.m = "Coinbase price not found"
    /\ ValueOf(2).st = "resolved"

\* C12: once the round is complete, a wrapper whose source succeeded
\* resolves with the string form of the price that source's fetchPrice
\* recorded in this round.
C12_ValueIsOwnPrice ==
    \A k \in DOMAIN Wrappers :
        (AllSettled /\ Succeeded(SourceOf(k)))
            => /\ ValueOf(k) = Resolved(Str(JSToString(priceP[SourceOf(k)].value.price)))
               /\ ValueOf(k).value.t = "string"

\* C12 witness: all four sources succeeded with different prices, the
\* average is none of them, and the three wrappers return "59", "60", "61".
C12_Witness ==
    /\ \A i \in Sources : Succeeded(i)
    /\ Reported /\ avg.value.average = Frac(121, 2)
    /\ ValueOf(1) = Resolved(Str(<<"5", "9">>))
    /\ ValueOf(2) = Resolved(Str(<<"6", "0">>))
    /\ ValueOf(3) = Resolved(Str(<<"6", "1">>))

----------------------------------------------------------------------------
(* Timeouts, independence of the sources, late events *)

\* The outcome fetchPrice records for a timed-out source.
TimeoutFailure(i) ==
    Resolved([name |-> APIS[i].name,
              error |-> [m |-> "Request timeout", code |-> 0, text |-> <<>>],
              success |-> FALSE])

\* C14: a timeout that fires while the source has no outcome yet destroys
\* the request and records Failure 'Request timeout' for it, and that
\* outcome stays whatever the destroyed request emits afterwards.
C14_TimeoutRecordsTimeout ==
    [][\A i \in Sources :
          /\ (priceP[i].st = "pending" /\ req[i].st # "destroyed"
                 /\ req'[i].st = "destroyed")
                => (priceP'[i] = TimeoutFailure(i) /\ results'[i] = priceP'[i].value)
          /\ req[i].st = "destroyed"
                => (priceP[i] = TimeoutFailure(i) /\ priceP'[i] = TimeoutFailure(i)
                    /\ results'[i] = priceP[i].value)]_vars

\* C14 witness: a request that timed out and then emitted 'error', its
\* outcome still the timeout.
C14_Witness ==
    \E i \in Sources : req[i].st = "errored" /\ priceP[i] = TimeoutFailure(i)

\* What belongs to source i alone.
Own(i) == <<req[i], fetchP[i], priceP[i], results[i]>>

\* C15: once the requests are out, a step in which the request of source i
\* is destroyed is i's own timeout and leaves the request and the outcome of
\* every other source as they were, and no step takes more than one
\* request out of flight.
C15_TimeoutCancelsOnlyOwnRequest ==
    [][avg # NotCalled =>
         \A i \in Sources : \A j \in Sources \ {i} :
            /\ (req[i].st # "destroyed" /\ req'[i].st = "destroyed")
                  => (fetchP'[i] = Rejected(TimeoutError) /\ Own(j)' = Own(j))
            /\ (CanStillSettle(i) /\ ~CanStillSettle(i)')
                  => (CanStillSettle(j)' <=> CanStillSettle(j))]_vars

\* C15 witness: CoinGecko has timed out while Binance is receiving its
\* response, Coinbase is waiting for one and CryptoCompare has succeeded.
C15_Witness ==
    /\ req[1].st = "destroyed" /\ priceP[1] = TimeoutFailure(1)
    /\ req[2].st = "response" /\ req[2].data # <<>>
    /\ req[3].st = "open"
    /\ Succeeded(4)

----------------------------------------------------------------------------
(* The reason of a completed response *)

\* The outcome the three steps status, parse, validate give a response.
ByFirstFailingStep(i, statusCode, data) ==
    IF statusCode < 200 \/ statusCode >= 300
    THEN Failure(APIS[i], [m |-> "HTTP", code |-> statusCode, text |-> data])
    ELSE IF ~JSONparse(data).ok
    THEN Failure(APIS[i], [m |-> "Failed to parse JSON", code |-> 0,
                           text |-> <<JSONparse(data).message>>])
    ELSE LET r == parser(APIS[i], JSONparse(data).v)
         IN  IF r.ok /\ IsValidPrice(r.v)
             THEN Success(APIS[i], r.v)
             ELSE Failure(APIS[i], [m |-> "Invalid price data", code |-> 0,
                                    text |-> <<>>])

\* C16: when a response ends, the outcome recorded for its source is the
\* one the first failing step decides: 'HTTP <code>: <body>' for a status
\* outside [200, 300) whatever the body, 'Failed to parse JSON: <message>'
\* for a body that does not parse, 'Invalid price data' for a parsed body
\* that yields no valid price, and Success only when all three steps pass.
C16_ReasonByFirstFailingStep ==
    [][\A i \in Sources :
          (req[i].st = "response" /\ req'[i].st = "ended")
             => priceP'[i] = Resolved(ByFirstFailingStep(i, req[i].statusCode,
                                                          req[i].data))]_vars

----------------------------------------------------------------------------
(* Independence of the sources and late events *)

\* The price promise of source i after a step that takes its request from
\* r to r2, from what belongs to source i alone: its fetch promise f and its
\* price promise p before the step.
OwnOutcome(i, r, f, p, r2) ==
    IF f.st # "pending" \/ r2 = r THEN p
    ELSE CASE r2.st = "ended" -> fetchPrice(APIS[i], OnEnd(r.statusCode, r.data))
           [] r2.st \in {"broken", "errored"} ->
                 fetchPrice(APIS[i], Rejected(TransportError))
           [] r2.st = "destroyed" -> fetchPrice(APIS[i], Rejected(TimeoutError))
           [] OTHER -> p

\* C17: once the requests are out, a step that changes what belongs to one
\* source changes nothing that belongs to another, and the outcome a step
\* records for source i is a function of i's own request, promises and
\* event alone, written to i's own slot; so two runs that agree on the
\* events of source i record the same outcome for it.
C17_OutcomeDependsOnOwnEvents ==
    [][avg # NotCalled =>
         /\ Cardinality({i \in Sources : Own(i)' # Own(i)}) <= 1
         /\ \A i \in Sources :
               /\ priceP'[i] = OwnOutcome(i, req[i], fetchP[i], priceP[i], req'[i])
               /\ results'[i] = IF priceP'[i].st = "resolved" THEN priceP'[i].value
                                 ELSE Empty]_vars

\* C17 witness: CoinGecko has succeeded with its quote while Binance has
\* timed out, Coinbase hangs after a premature close and CryptoCompare is
\* still receiving its body.
C17_Witness ==
    /\ Succeeded(1) /\ priceP[1].value.price = Num(60)
    /\ priceP[2] = TimeoutFailure(2)
    /\ req[3].st = "aborted" /\ priceP[3].st = "pending"
    /\ req[4].st = "response" /\ priceP[4].st = "pending"

\* C18: a fetch promise, a price promise, an outcome slot and the promise
\* of getBTCAverage, once settled or filled, never change again: no later
\* event on the request turns a Success into a Failure or back, changes
\* the reason or records a second outcome.
C18_SettledAtMostOnce ==
    [][/\ \A i \in Sources :
             /\ Settled(fetchP[i]) => fetchP'[i] = fetchP[i]
             /\ Settled(priceP[i]) => priceP'[i] = priceP[i]
             /\ results[i] # Empty => results'[i] = results[i]
       /\ Settled(avg) => avg' = avg
       /\ exit # <<>> => exit' = exit]_vars

\* C18 witness: one request emitted 'error' after its timeout had destroyed
\* it and kept the timeout as its reason, a second saw its response end
\* after an 'error' and kept the error, a third succeeded and its response
\* has ended, where a late timeout has nothing left to change.
C18_Witness ==
    \E i, j, k \in Sources :
        /\ req[i].st = "errored" /\ fetchP[i] = Rejected(TimeoutError)
        /\ priceP[i] = TimeoutFailure(i)
        /\ req[j].st = "ended" /\ fetchP[j] = Rejected(TransportError)
        /\ Failed(j) /\ priceP[j].value.error.m = "socket hang up"
        /\ req[k].st = "ended" /\ Succeeded(k)

====
